---- MODULE Spec2Model ----
(***************************************************************************)
(* Model of the liquidity-tracker backend: the fetch adapters and the      *)
(* date-bucketed merge (fetch_nyfed.py, fetch_fred.py), the upsert engine  *)
(* (update_daily.py, update_weekly.py), the chunked backfill driver        *)
(* (backfill.py) and the top-level drivers.                                *)
(*                                                                         *)
(* A date string 'YYYY-MM-DD' is the triple <<y, m, d>>; a datetime is a   *)
(* day ordinal counted from BaseYear-01-01.  A nullable number is <<>>     *)
(* (None / SQL NULL) or <<v>>.                                             *)
(***************************************************************************)
EXTENDS Integers, Sequences, FiniteSets

\* ------------------------------------------------------------- bounds
\* days in the window of dates a run draws its inputs from
WindowDays == 2
\* longest batch handed to a plain upsert call
MaxBatch == 2
\* longest range, in days, handed to a direct call of backfill_in_chunks
RangeDays == 5
\* widest chunk_days handed to a direct call of backfill_in_chunks
MaxChunkDays == 2

\* first year of the calendar the ordinals count from (the default --start-date)
BaseYear == 2018

VARIABLES
    today,        \* the clock: day ordinal of datetime.now()
    dbExists,     \* DB_PATH.exists()
    repo_rates,   \* committed rows of table repo_rates
    fed_weekly,   \* committed rows of table fed_weekly
    policy_rates, \* committed rows of table policy_rates
    last,         \* the most recent upsert call and its outcome
    apiKey,       \* whether os.getenv('FRED_API_KEY') is set and non-empty
    fetched,      \* the most recent fetch round and its outcome
    bf,           \* the run of backfill_in_chunks: its locals and what it printed
    drv           \* the top-level driver (a main()): its position, output, exit status

vars == <<today, dbExists, repo_rates, fed_weekly, policy_rates, last, apiKey, fetched,
          bf, drv>>

\* ------------------------------------------------------------ calendar
None == <<>>
Some(v) == <<v>>

\* Python truthiness of a nullable float: None and 0.0 are falsy
Truthy(x) == x # None /\ x[1] # 0

IsLeap(y) == (y % 4 = 0 /\ y % 100 # 0) \/ y % 400 = 0

\* calendar.monthrange(year, month)[1]
monthrange(y, m) ==
    IF m = 2 THEN (IF IsLeap(y) THEN 29 ELSE 28)
    ELSE IF m \in {4, 6, 9, 11} THEN 30 ELSE 31

DaysInYear(y) == IF IsLeap(y) THEN 366 ELSE 365

RECURSIVE DaysBeforeYear(_)
DaysBeforeYear(y) == IF y <= BaseYear THEN 0 ELSE DaysBeforeYear(y - 1) + DaysInYear(y - 1)

RECURSIVE DaysBeforeMonth(_, _)
DaysBeforeMonth(y, m) == IF m <= 1 THEN 0 ELSE DaysBeforeMonth(y, m - 1) + monthrange(y, m - 1)

\* datetime.strptime(date_str, '%Y-%m-%d') as a day ordinal
strptime(s) == DaysBeforeYear(s[1]) + DaysBeforeMonth(s[1], s[2]) + (s[3] - 1)

RECURSIVE FromOrdinal(_, _, _)
FromOrdinal(n, y, m) ==
    IF n >= DaysInYear(y) /\ m = 1 THEN FromOrdinal(n - DaysInYear(y), y + 1, 1)
    ELSE IF n >= monthrange(y, m) THEN FromOrdinal(n - monthrange(y, m), y, m + 1)
    ELSE <<y, m, n + 1>>

\* datetime.strftime('%Y-%m-%d')
strftime(n) == FromOrdinal(n, BaseYear, 1)

\* order of two ISO date strings as text (sqlite's date < ?, Python's sorted)
DateLt(a, b) ==
    \/ a[1] < b[1]
    \/ a[1] = b[1] /\ a[2] < b[2]
    \/ a[1] = b[1] /\ a[2] = b[2] /\ a[3] < b[3]

\* the date strings a run draws its inputs from: the WindowDays days ending today
Window == {strftime(today - i) : i \in 0 .. WindowDays - 1}

\* ------------------------------------------------- period-end flags
\* mutant: a quarter end taken to be any day from the 30th on of a quarter's last month
is_quarter_end_from30(date_str) == date_str[2] \in {3, 6, 9, 12} /\ date_str[3] >= 30

is_quarter_end(date_str) ==
    IF date_str[2] \in {3, 6, 9, 12}
    THEN date_str[3] = monthrange(date_str[1], date_str[2])
    ELSE FALSE

is_month_end(date_str) == date_str[3] = monthrange(date_str[1], date_str[2])


\* ------------------------------------------------------ input records
\* the (sofr, effr, srf_usage, onrrp) readings a daily record may carry
DailyPayloads ==
    { <<Some(5), Some(5), Some(0), Some(2)>>,
      <<None, None, None, None>>,
      <<None, Some(4), Some(1), None>> }

DailyRecord(d, p) ==
    [date |-> d, sofr |-> p[1], effr |-> p[2], srf_usage |-> p[3], onrrp |-> p[4]]

DailyRecords == {DailyRecord(d, p) : d \in Window, p \in DailyPayloads}

\* weekly records as fetch_fed_weekly builds them without and with the tga key
WeeklyRecord(d, bs, res) == [date |-> d, balance_sheet |-> bs, reserves |-> res]
WeeklyRecordTga(d, bs, res, tga) ==
    [date |-> d, balance_sheet |-> bs, reserves |-> res, tga |-> tga]

WeeklyRecords ==
    UNION { { WeeklyRecord(d, Some(2), Some(5)),
              WeeklyRecord(d, None, None),
              WeeklyRecordTga(d, Some(5), Some(0), Some(7)) } : d \in Window }

\* the batches a caller hands to an upsert: as the fetch functions build them,
\* one record per date in ascending date order, at most n records, never empty
RECURSIVE SortedBatches(_, _)
SortedBatches(S, n) ==
    IF n <= 1 THEN {<<r>> : r \in S}
    ELSE LET shorter == SortedBatches(S, n - 1)
             longest == {x \in shorter : Len(x) = n - 1}
         IN  shorter \cup
             UNION { {Append(q, r) : r \in {x \in S : DateLt(q[n - 1].date, x.date)}} : q \in longest }

Batches(S) == SortedBatches(S, MaxBatch)

\* ------------------------------------------------------- upsert engine
\* cursor.execute("SELECT date FROM <table> WHERE date = ?"); fetchone() is not None
RowExists(t, date) == \E r \in t : r.date = date

Raised(t) == [outcome |-> "raised", table |-> t, inserted |-> 0, updated |-> 0]

\* mutant: an update that keeps the stored value where the record carries None
UpdateRepoRowMerge(t, record) ==
    LET Keep(new, old) == IF new = None THEN old ELSE new
    IN  { IF r.date = record.date
          THEN [r EXCEPT !.sofr = Keep(record.sofr, @), !.effr = Keep(record.effr, @),
                         !.srf_usage = Keep(record.srf_usage, @), !.onrrp = Keep(record.onrrp, @),
                         !.is_quarter_end = is_quarter_end(record.date),
                         !.is_month_end = is_month_end(record.date)]
          ELSE r : r \in t }

\* mutant: the row replaced as a whole (INSERT OR REPLACE), the columns the
\* statement does not name falling back to NULL
UpdateRepoRowReplace(t, record) ==
    {r \in t : r.date # record.date}
        \cup { [date |-> record.date, sofr |-> record.sofr, effr |-> record.effr,
                 srf_usage |-> record.srf_usage, onrrp |-> record.onrrp,
                 sofr_iorb_spread |-> None, effr_target_mid |-> None,
                 is_quarter_end |-> is_quarter_end(record.date),
                 is_month_end |-> is_month_end(record.date)] }

\* UPDATE repo_rates SET sofr, effr, srf_usage, onrrp, is_quarter_end, is_month_end
UpdateRepoRow(t, record) ==
    { IF r.date = record.date
      THEN [r EXCEPT !.sofr = record.sofr, !.effr = record.effr,
                     !.srf_usage = record.srf_usage, !.onrrp = record.onrrp,
                     !.is_quarter_end = is_quarter_end(record.date),
                     !.is_month_end = is_month_end(record.date)]
      ELSE r : r \in t }

\* INSERT INTO repo_rates (date, sofr, effr, srf_usage, onrrp, is_quarter_end, is_month_end)
InsertRepoRow(t, record) ==
    t \cup { [date |-> record.date, sofr |-> record.sofr, effr |-> record.effr,
              srf_usage |-> record.srf_usage, onrrp |-> record.onrrp,
              sofr_iorb_spread |-> None, effr_target_mid |-> None,
              is_quarter_end |-> is_quarter_end(record.date),
              is_month_end |-> is_month_end(record.date)] }

\* mutant: a commit after every record, a rejected statement leaving the earlier
\* records of the batch in the store
RECURSIVE RepoLoopCommitEach(_, _, _, _, _, _, _)
RepoLoopCommitEach(t0, t, data, i, inserted, updated, failAt) ==
    IF i > Len(data)
    THEN [outcome |-> "returned", table |-> t, inserted |-> inserted, updated |-> updated]
    ELSE IF failAt = i THEN Raised(t)
    ELSE IF RowExists(t, data[i].date)
         THEN RepoLoopCommitEach(t0, UpdateRepoRow(t, data[i]), data, i + 1, inserted,
                                 updated + 1, failAt)
         ELSE RepoLoopCommitEach(t0, InsertRepoRow(t, data[i]), data, i + 1,
                                 inserted + 1, updated, failAt)

\* the for-loop of upsert_repo_rates from record i on, inside one transaction;
\* failAt is the record at which the store rejects a statement (0: none)
RECURSIVE RepoLoop(_, _, _, _, _, _, _)
RepoLoop(t0, t, data, i, inserted, updated, failAt) ==
    IF i > Len(data)
    THEN [outcome |-> "returned", table |-> t, inserted |-> inserted, updated |-> updated]
    ELSE IF failAt = i THEN Raised(t0)
    ELSE IF RowExists(t, data[i].date)
         THEN RepoLoop(t0, UpdateRepoRow(t, data[i]), data, i + 1, inserted, updated + 1, failAt)
         ELSE IF \E r \in t : r.date = data[i].date
              THEN Raised(t0)   \* PRIMARY KEY violation
              ELSE RepoLoop(t0, InsertRepoRow(t, data[i]), data, i + 1,
                            inserted + 1, updated, failAt)

\* mutant: the update branch counts its rows as inserted
upsert_repo_rates_miscount(exists, t, data, verbose, failAt) ==
    LET res == IF ~exists
               THEN [outcome |-> "returned", table |-> t, inserted |-> 0, updated |-> 0]
               ELSE RepoLoop(t, t, data, 1, 0, 0, failAt)
    IN  [res EXCEPT !.inserted = res.inserted + res.updated, !.updated = 0]

upsert_repo_rates(exists, t, data, verbose, failAt) ==
    IF ~exists
    THEN [outcome |-> "returned", table |-> t, inserted |-> 0, updated |-> 0]
    ELSE RepoLoop(t, t, data, 1, 0, 0, failAt)

\* record.get('tga')
GetTga(record) == IF "tga" \in DOMAIN record THEN record.tga ELSE None

\* mutant: the new values written as one more row, the old row left in place
UpdateWeeklyRowAppend(t, record) ==
    t \cup { [date |-> record.date, balance_sheet |-> record.balance_sheet,
              reserves |-> record.reserves, tga |-> GetTga(record),
              balance_sheet_change |-> None, reserves_change |-> None] }

\* UPDATE fed_weekly SET balance_sheet, reserves, tga WHERE date = ?
UpdateWeeklyRow(t, record) ==
    { IF r.date = record.date
      THEN [r EXCEPT !.balance_sheet = record.balance_sheet,
                     !.reserves = record.reserves, !.tga = GetTga(record)]
      ELSE r : r \in t }

\* INSERT INTO fed_weekly (date, balance_sheet, reserves, tga)
InsertWeeklyRow(t, record) ==
    t \cup { [date |-> record.date, balance_sheet |-> record.balance_sheet,
              reserves |-> record.reserves, tga |-> GetTga(record),
              balance_sheet_change |-> None, reserves_change |-> None] }

\* SELECT ... WHERE date < ? ORDER BY date DESC LIMIT 1 (the set holds at most one row)
PrevWeek(t, date) ==
    { r \in t : DateLt(r.date, date) /\ \A q \in t : DateLt(q.date, date) => ~DateLt(r.date, q.date) }

\* (curr - prev) if (curr and prev) else None
Change(curr, prev) == IF Truthy(curr) /\ Truthy(prev) THEN Some(curr[1] - prev[1]) ELSE None

calculate_weekly_changes(t, date) ==
    LET prev_week == PrevWeek(t, date)
        curr_week == {r \in t : r.date = date}
    IN  IF prev_week = {} THEN <<None, None>>
        ELSE IF curr_week = {} THEN <<None, None>>
        ELSE LET prev == CHOOSE r \in prev_week : TRUE
                 curr == CHOOSE r \in curr_week : TRUE
             IN  << Change(curr.balance_sheet, prev.balance_sheet),
                    Change(curr.reserves, prev.reserves) >>

\* UPDATE fed_weekly SET balance_sheet_change, reserves_change WHERE date = ?,
\* run only when one of the two changes is not None
StoreChanges(t, date, changes) ==
    IF changes[1] # None \/ changes[2] # None
    THEN { IF r.date = date
           THEN [r EXCEPT !.balance_sheet_change = changes[1], !.reserves_change = changes[2]]
           ELSE r : r \in t }
    ELSE t

\* the verbose "Inserted:" line formats both readings with ':,.1f': TypeError on None
InsertLineRaises(record, verbose) ==
    verbose /\ (record.balance_sheet = None \/ record.reserves = None)

\* the verbose "Change:" line is printed when bs_change is truthy and formats both changes
ChangeLineRaises(changes, verbose) ==
    verbose /\ Truthy(changes[1]) /\ changes[2] = None

\* the for-loop of upsert_fed_weekly from record i on, inside one transaction
RECURSIVE WeeklyLoop(_, _, _, _, _, _, _, _)
WeeklyLoop(t0, t, data, i, inserted, updated, verbose, failAt) ==
    IF i > Len(data)
    THEN [outcome |-> "returned", table |-> t, inserted |-> inserted, updated |-> updated]
    ELSE IF failAt = i THEN Raised(t0)
    ELSE LET record == data[i]
             exists == RowExists(t, record.date)
             written == IF exists THEN UpdateWeeklyRow(t, record) ELSE InsertWeeklyRow(t, record)
             changes == calculate_weekly_changes(written, record.date)
         IN  IF ~exists /\ (\E r \in t : r.date = record.date)
             THEN Raised(t0)   \* PRIMARY KEY violation
             ELSE IF ~exists /\ InsertLineRaises(record, verbose) THEN Raised(t0)
             ELSE IF ChangeLineRaises(changes, verbose) THEN Raised(t0)
             ELSE WeeklyLoop(t0, StoreChanges(written, record.date, changes), data, i + 1,
                             IF exists THEN inserted ELSE inserted + 1,
                             IF exists THEN updated + 1 ELSE updated, verbose, failAt)

\* mutant: the update branch counts its rows as inserted
upsert_fed_weekly_miscount(exists, t, data, verbose, failAt) ==
    LET res == IF ~exists
               THEN [outcome |-> "returned", table |-> t, inserted |-> 0, updated |-> 0]
               ELSE WeeklyLoop(t, t, data, 1, 0, 0, verbose, failAt)
    IN  [res EXCEPT !.inserted = res.inserted + res.updated, !.updated = 0]

upsert_fed_weekly(exists, t, data, verbose, failAt) ==
    IF ~exists
    THEN [outcome |-> "returned", table |-> t, inserted |-> 0, updated |-> 0]
    ELSE WeeklyLoop(t, t, data, 1, 0, 0, verbose, failAt)

\* ------------------------------------------------------ fetch adapters
\* What one HTTP request of a series comes back with:
\*   "error"     a RequestException (network error, timeout, non-2xx status);
\*   "malformed" a body whose value float() rejects: the ValueError is not caught;
\*   "ok"        observations, a function from dates to <<raw>>, or to <<>> where
\*               the source marks the value missing ('.' at FRED, null at the NY Fed).
ErrorReply == [status |-> "error", obs |-> <<>>]
MalformedReply == [status |-> "malformed", obs |-> <<>>]
OkReply(obs) == [status |-> "ok", obs |-> obs]

\* the number a series reports for a date, in the unit the source reports it in
RawValue(series, d) ==
    CASE series = "sofr" -> 5
      [] series = "effr" -> 4
      [] series = "srf" -> 1000 * d[3]
      [] series = "onrrp" -> 1000000000
      [] series = "balance_sheet" -> 2 * d[3]
      [] series = "reserves" -> 9 - d[3]
      [] OTHER -> 7

\* the date strings from start to end, both included
DatesIn(start, end) == {strftime(n) : n \in strptime(start) .. strptime(end)}

Observations(series, S) == [d \in S |-> Some(RawValue(series, d))]

\* the bodies a source may answer with for a range: values on any subset of its
\* dates, or every date with the earliest one marked missing
OkReplies(series, dates) ==
    {OkReply(Observations(series, S)) : S \in SUBSET dates}
    \cup {OkReply([d \in dates |-> IF \A e \in dates : ~DateLt(e, d)
                                   THEN None ELSE Some(RawValue(series, d))])}

Replies(series, dates) == {ErrorReply, MalformedReply} \cup OkReplies(series, dates)

\* the replies of a series that reports nothing or every date of the range
FewReplies(series, dates) ==
    {ErrorReply, OkReply(Observations(series, {})), OkReply(Observations(series, dates))}

\* NYFedAPI.fetch_sofr .. fetch_onrrp and FREDAPI.fetch_series: an empty mapping on
\* a RequestException, else date -> float(value) / unit, missing values skipped
Adapter(reply, unit) ==
    IF reply.status # "ok" THEN <<>>
    ELSE [d \in {x \in DOMAIN reply.obs : reply.obs[x] # None} |->
              reply.obs[d][1] \div unit]

\* dict.get(date)
Get(mapping, d) == IF d \in DOMAIN mapping THEN Some(mapping[d]) ELSE None

\* sorted(all_dates)
RECURSIVE Sorted(_)
Sorted(S) ==
    IF S = {} THEN <<>>
    ELSE LET first == CHOOSE d \in S : \A e \in S : ~DateLt(e, d)
         IN  <<first>> \o Sorted(S \ {first})

\* What is recorded of the most recent fetch round: status, how the request of each
\* series ends when it is sent; requests, the number sent; maps, the mapping each
\* adapter returned; result, the merged list
NoFetch ==
    [kind |-> "none", outcome |-> "none", include_tga |-> FALSE, requests |-> 0,
     status |-> <<>>, maps |-> <<>>, result |-> <<>>]

StatusOf(replies) == [k \in DOMAIN replies |-> replies[k].status]

\* the requests sent before and with the first malformed reply of a round
RECURSIVE SentUntilMalformed(_, _)
SentUntilMalformed(replies, order) ==
    IF order = <<>> THEN 0
    ELSE IF replies[Head(order)].status = "malformed" THEN 1
    ELSE 1 + SentUntilMalformed(replies, Tail(order))

\* mutant: an inner join, keeping the dates every mapping has
MergeRepoInner(maps) ==
    LET all_dates == DOMAIN maps.sofr \cap DOMAIN maps.effr
                     \cap DOMAIN maps.srf \cap DOMAIN maps.onrrp
        sorted == Sorted(all_dates)
    IN  [i \in 1 .. Len(sorted) |->
            [date |-> sorted[i], sofr |-> Get(maps.sofr, sorted[i]),
             effr |-> Get(maps.effr, sorted[i]), srf_usage |-> Get(maps.srf, sorted[i]),
             onrrp |-> Get(maps.onrrp, sorted[i])]]

\* the merge of fetch_repo_rates: one record per date of the union of the keys
MergeRepo(maps) ==
    LET all_dates == DOMAIN maps.sofr \cup DOMAIN maps.effr
                     \cup DOMAIN maps.srf \cup DOMAIN maps.onrrp
        sorted == Sorted(all_dates)
    IN  [i \in 1 .. Len(sorted) |->
            [date |-> sorted[i], sofr |-> Get(maps.sofr, sorted[i]),
             effr |-> Get(maps.effr, sorted[i]), srf_usage |-> Get(maps.srf, sorted[i]),
             onrrp |-> Get(maps.onrrp, sorted[i])]]

\* mutant: the adapters let a RequestException through, the round raising at the
\* first request that fails
fetch_repo_rates_uncaught(replies) ==
    LET order == <<"sofr", "effr", "srf", "onrrp">>
        maps == [sofr |-> Adapter(replies.sofr, 1), effr |-> Adapter(replies.effr, 1),
                 srf |-> Adapter(replies.srf, 1000),
                 onrrp |-> Adapter(replies.onrrp, 1000000000)]
    IN  IF \E k \in DOMAIN replies : replies[k].status # "ok"
        THEN [kind |-> "daily", outcome |-> "raised", include_tga |-> FALSE,
              requests |-> 1, status |-> StatusOf(replies), maps |-> <<>>,
              result |-> <<>>]
        ELSE [kind |-> "daily", outcome |-> "returned", include_tga |-> FALSE,
              requests |-> 4, status |-> StatusOf(replies), maps |-> maps,
              result |-> MergeRepo(maps)]

\* fetch_repo_rates(start_date, end_date) with the four replies it meets
fetch_repo_rates(replies) ==
    LET order == <<"sofr", "effr", "srf", "onrrp">>
        maps == [sofr |-> Adapter(replies.sofr, 1), effr |-> Adapter(replies.effr, 1),
                 srf |-> Adapter(replies.srf, 1000),
                 onrrp |-> Adapter(replies.onrrp, 1000000000)]
    IN  IF \E k \in DOMAIN replies : replies[k].status = "malformed"
        THEN [kind |-> "daily", outcome |-> "raised", include_tga |-> FALSE,
              requests |-> SentUntilMalformed(replies, order),
              status |-> StatusOf(replies), maps |-> <<>>, result |-> <<>>]
        ELSE [kind |-> "daily", outcome |-> "returned", include_tga |-> FALSE,
              requests |-> 4, status |-> StatusOf(replies), maps |-> maps,
              result |-> MergeRepo(maps)]

\* the merge of fetch_fed_weekly; the tga key only with include_tga
MergeWeekly(maps, include_tga) ==
    LET all_dates == DOMAIN maps.balance_sheet \cup DOMAIN maps.reserves
                     \cup (IF include_tga THEN DOMAIN maps.tga ELSE {})
        sorted == Sorted(all_dates)
    IN  [i \in 1 .. Len(sorted) |->
            IF include_tga
            THEN WeeklyRecordTga(sorted[i], Get(maps.balance_sheet, sorted[i]),
                                 Get(maps.reserves, sorted[i]), Get(maps.tga, sorted[i]))
            ELSE WeeklyRecord(sorted[i], Get(maps.balance_sheet, sorted[i]),
                              Get(maps.reserves, sorted[i]))]

\* mutant: a client built without looking at the key
HasApiKeyUnchecked(key) == TRUE

\* FREDAPI.__init__: ValueError unless the key is set
HasApiKey(key) == key

\* fetch_fed_weekly(start_date, end_date, include_tga) with the replies it meets
fetch_fed_weekly(key, include_tga, replies) ==
    LET order == IF include_tga THEN <<"balance_sheet", "reserves", "tga">>
                 ELSE <<"balance_sheet", "reserves">>
        maps == [balance_sheet |-> Adapter(replies.balance_sheet, 1),
                 reserves |-> Adapter(replies.reserves, 1),
                 tga |-> IF include_tga THEN Adapter(replies.tga, 1) ELSE <<>>]
    IN  IF ~HasApiKey(key)
        THEN [kind |-> "weekly", outcome |-> "raised", include_tga |-> include_tga,
              requests |-> 0, status |-> StatusOf(replies), maps |-> <<>>,
              result |-> <<>>]
        ELSE IF \E i \in 1 .. Len(order) : replies[order[i]].status = "malformed"
        THEN [kind |-> "weekly", outcome |-> "raised", include_tga |-> include_tga,
              requests |-> SentUntilMalformed(replies, order),
              status |-> StatusOf(replies), maps |-> <<>>, result |-> <<>>]
        ELSE [kind |-> "weekly", outcome |-> "returned", include_tga |-> include_tga,
              requests |-> Len(order), status |-> StatusOf(replies), maps |-> maps,
              result |-> MergeWeekly(maps, include_tga)]

\* the reply combinations a fetch round over the dates may meet
RepoReplies(dates) ==
    [sofr : Replies("sofr", dates), effr : Replies("effr", dates),
     srf : FewReplies("srf", dates), onrrp : FewReplies("onrrp", dates)]

WeeklyReplies(dates) ==
    [balance_sheet : Replies("balance_sheet", dates), reserves : Replies("reserves", dates),
     tga : FewReplies("tga", dates)]

\* a caller fetches the daily records of the window
FetchRepoRatesCall(replies) ==
    /\ fetched' = fetch_repo_rates(replies)
    /\ UNCHANGED <<today, dbExists, repo_rates, fed_weekly, policy_rates, last, apiKey, bf, drv>>

\* a caller fetches the weekly records of the window
FetchFedWeeklyCall(include_tga, replies) ==
    /\ fetched' = fetch_fed_weekly(apiKey, include_tga, replies)
    /\ UNCHANGED <<today, dbExists, repo_rates, fed_weekly, policy_rates, last, apiKey, bf, drv>>

\* ------------------------------------------------- plain upsert calls
\* What is recorded of the most recent upsert call: its arguments and result,
\*   failAt: the record at which the store rejected a statement (0: none);
\*   repeat: it returned, and the call before it was the same call and returned too;
\*   nulled: the value fields in which it replaced a stored number by NULL.
NoCall ==
    [kind |-> "none", data |-> <<>>, outcome |-> "none", failAt |-> 0, inserted |-> 0,
     updated |-> 0, repeat |-> FALSE, nulled |-> {}]

DailyFields == {"sofr", "effr", "srf_usage", "onrrp"}
WeeklyFields == {"balance_sheet", "reserves", "tga"}

Nulled(fields, before, after) ==
    {f \in fields : \E b \in before, a \in after : a.date = b.date /\ b[f] # None /\ a[f] = None}

CallRecord(kind, fields, data, before, res, failAt) ==
    [kind |-> kind, data |-> data, outcome |-> res.outcome, failAt |-> failAt,
     inserted |-> res.inserted, updated |-> res.updated,
     repeat |-> /\ res.outcome = "returned" /\ last.outcome = "returned"
                /\ last.kind = kind /\ last.data = data,
     nulled |-> Nulled(fields, before, res.table)]

\* a caller hands a batch to upsert_repo_rates; a raised call commits nothing
UpsertRepoRatesCall(data, verbose, failAt) ==
    LET res == upsert_repo_rates(dbExists, repo_rates, data, verbose, failAt)
    IN  /\ repo_rates' = res.table
        /\ last' = CallRecord("daily", DailyFields, data, repo_rates, res, failAt)
        /\ UNCHANGED <<today, dbExists, fed_weekly, policy_rates, apiKey, fetched, bf, drv>>

\* a caller hands a batch to upsert_fed_weekly
UpsertFedWeeklyCall(data, verbose, failAt) ==
    LET res == upsert_fed_weekly(dbExists, fed_weekly, data, verbose, failAt)
    IN  /\ fed_weekly' = res.table
        /\ last' = CallRecord("weekly", WeeklyFields, data, fed_weekly, res, failAt)
        /\ UNCHANGED <<today, dbExists, repo_rates, policy_rates, apiKey, fetched, bf, drv>>

\* ---------------------------------------------------- chunked backfill
\* chunk_days of backfill_repo_rates and of backfill_fed_weekly
RepoChunkDays == 90
FedChunkDays == 365

\* min(a, b)
Min(a, b) == IF a <= b THEN a ELSE b

\* The locals of backfill_in_chunks (datetimes as day ordinals) and, in chunks, what
\* it printed per chunk: the "[Chunk n] start to end" line, how the fetch ended and
\* its error text, how the upsert ended and the pair it returned; data and failAt
\* keep the batch handed to the upsert and the record at which the store rejected
\* a statement.
IdleBackfill ==
    [pc |-> "idle", kind |-> "none", start |-> 0, end |-> 0, chunk_days |-> 0,
     verbose |-> FALSE, current |-> 0, chunk_end |-> 0, chunk_num |-> 0, data |-> <<>>,
     total_inserted |-> 0, total_updated |-> 0, chunks |-> <<>>, summary |-> <<>>]

\* backfill_in_chunks up to the loop: start, end, the totals, current = start
backfill_begin(kind, start_date, end_date, chunk_days, verbose) ==
    [IdleBackfill EXCEPT !.pc = "loop", !.kind = kind, !.start = strptime(start_date),
                         !.end = strptime(end_date), !.chunk_days = chunk_days,
                         !.verbose = verbose, !.current = strptime(start_date)]

\* mutant: the chunk end without the clamp to the end of the range
ChunkEndUnclamped(current, chunk_days, end) == current + chunk_days

\* chunk_end = min(current + timedelta(days=chunk_days), end)
ChunkEnd(current, chunk_days, end) == Min(current + chunk_days, end)

\* current = chunk_end + timedelta(days=1)
NextStart(chunk_end) == chunk_end + 1

\* mutant: the total assigned, not added to
AccumulateLast(total, n) == n

\* total_inserted += inserted; total_updated += updated
Accumulate(total, n) == total + n

\* mutant: an empty result is handed to the upsert like any other
NoDataNever(data) == FALSE

\* if not data
NoData(data) == Len(data) = 0

\* str(e) of the exception a fetch round raised
KeyMessage == "FRED API key required. Set FRED_API_KEY environment variable or pass api_key parameter."
FloatMessage == "could not convert string to float"

FetchError(kind, res) ==
    IF res.outcome # "raised" THEN ""
    ELSE IF kind = "weekly" /\ res.requests = 0 THEN KeyMessage ELSE FloatMessage

\* the date strings of the chunk the loop is at
ChunkDates ==
    DatesIn(strftime(bf.current), strftime(ChunkEnd(bf.current, bf.chunk_days, bf.end)))

FirstOf(dates) == {d \in dates : \A e \in dates : ~DateLt(e, d)}

\* the fetch rounds a chunk may meet: every request fails; the first reply is
\* malformed; every series reports every date; the first series reports the first
\* date only and the last ones fail; for the weekly source also the round in which
\* the first series reports every date and the second request fails
DailyRounds(dates) ==
    { [sofr |-> ErrorReply, effr |-> ErrorReply, srf |-> ErrorReply, onrrp |-> ErrorReply],
      [sofr |-> MalformedReply, effr |-> ErrorReply, srf |-> ErrorReply,
       onrrp |-> ErrorReply],
      [sofr |-> OkReply(Observations("sofr", dates)),
       effr |-> OkReply(Observations("effr", dates)),
       srf |-> OkReply(Observations("srf", dates)),
       onrrp |-> OkReply(Observations("onrrp", dates))],
      [sofr |-> OkReply(Observations("sofr", FirstOf(dates))),
       effr |-> OkReply(Observations("effr", dates)),
       srf |-> ErrorReply, onrrp |-> ErrorReply] }

WeeklyRounds(dates) ==
    { [balance_sheet |-> ErrorReply, reserves |-> ErrorReply, tga |-> ErrorReply],
      [balance_sheet |-> MalformedReply, reserves |-> ErrorReply, tga |-> ErrorReply],
      [balance_sheet |-> OkReply(Observations("balance_sheet", dates)),
       reserves |-> OkReply(Observations("reserves", dates)), tga |-> ErrorReply],
      [balance_sheet |-> OkReply(Observations("balance_sheet", FirstOf(dates))),
       reserves |-> OkReply(Observations("reserves", dates)), tga |-> ErrorReply],
      [balance_sheet |-> OkReply(Observations("balance_sheet", dates)),
       reserves |-> ErrorReply, tga |-> ErrorReply] }

ChunkRounds == IF bf.kind = "daily" THEN DailyRounds(ChunkDates) ELSE WeeklyRounds(ChunkDates)

\* the records of a batch at which the store may reject a statement (0: none)
FailPoints(data) == IF dbExists THEN 0 .. Min(Len(data), MaxBatch) ELSE {0}

\* mutant: a fetch outside any try/except, its exception ending the run
FetchFailedUncaught(entered, chunk_end) == [entered EXCEPT !.pc = "crashed"]

\* except Exception around the fetch: the error line, current = chunk_end + 1 day,
\* continue
FetchFailed(entered, chunk_end) == [entered EXCEPT !.current = NextStart(chunk_end)]

\* a direct call of backfill_in_chunks, up to its loop
BackfillInChunksCall(kind, start_date, end_date, chunk_days, verbose) ==
    /\ bf.pc = "idle"
    /\ drv.pc = "idle"
    /\ bf' = backfill_begin(kind, start_date, end_date, chunk_days, verbose)
    /\ UNCHANGED <<today, dbExists, repo_rates, fed_weekly, policy_rates, last, apiKey,
                   fetched, drv>>

\* a pass that would start while the upsert of the pass before is still pending
WhileConditionOverlapping(b) == b.pc \in {"loop", "insert"} /\ b.current <= b.end

\* `while current <= end`, evaluated when control is at the head of the loop: the
\* body is straight-line code, so the upsert of a pass is over before the next test
WhileCondition(b) == b.pc = "loop" /\ b.current <= b.end

\* one pass of the loop up to the upsert: the chunk bounds, the "[Chunk n]" line, the
\* fetch; a fetch that raised or returned nothing advances current and continues
ChunkFetch(replies) ==
    /\ WhileCondition(bf)
    /\ LET chunk_end == ChunkEnd(bf.current, bf.chunk_days, bf.end)
           res == IF bf.kind = "daily" THEN fetch_repo_rates(replies)
                  ELSE fetch_fed_weekly(apiKey, FALSE, replies)
           line == [start |-> strftime(bf.current), end |-> strftime(chunk_end),
                    fetch |-> IF res.outcome = "raised" THEN "raised"
                              ELSE IF Len(res.result) = 0 THEN "empty" ELSE "data",
                    error |-> FetchError(bf.kind, res), upsert |-> "none",
                    data |-> res.result, failAt |-> 0, inserted |-> 0, updated |-> 0]
           entered == [bf EXCEPT !.chunk_num = @ + 1, !.chunks = Append(@, line),
                                 !.chunk_end = chunk_end]
       IN  /\ fetched' = res
           /\ bf' = IF res.outcome = "raised" THEN FetchFailed(entered, chunk_end)
                    ELSE IF NoData(res.result)
                    THEN [entered EXCEPT !.current = NextStart(chunk_end)]
                    ELSE [entered EXCEPT !.pc = "insert", !.data = res.result]
    /\ UNCHANGED <<today, dbExists, repo_rates, fed_weekly, policy_rates, last, apiKey, drv>>

\* the rest of the pass: the upsert inside try/except Exception, the totals, the
\* "Inserted/Updated" or "Error inserting data" line, current = chunk_end + 1 day
ChunkUpsert(failAt) ==
    /\ bf.pc = "insert"
    /\ failAt \in FailPoints(bf.data)
    /\ LET res == IF bf.kind = "daily"
                  THEN upsert_repo_rates(dbExists, repo_rates, bf.data, bf.verbose, failAt)
                  ELSE upsert_fed_weekly(dbExists, fed_weekly, bf.data, bf.verbose, failAt)
           n == Len(bf.chunks)
       IN  /\ repo_rates' = IF bf.kind = "daily" THEN res.table ELSE repo_rates
           /\ fed_weekly' = IF bf.kind = "daily" THEN fed_weekly ELSE res.table
           /\ last' = IF bf.kind = "daily"
                      THEN CallRecord("daily", DailyFields, bf.data, repo_rates, res, failAt)
                      ELSE CallRecord("weekly", WeeklyFields, bf.data, fed_weekly, res, failAt)
           /\ bf' = [bf EXCEPT !.pc = "loop", !.data = <<>>,
                               !.total_inserted = Accumulate(@, res.inserted),
                               !.total_updated = Accumulate(@, res.updated),
                               !.chunks[n].upsert = res.outcome,
                               !.chunks[n].failAt = failAt,
                               !.chunks[n].inserted = res.inserted,
                               !.chunks[n].updated = res.updated,
                               !.current = NextStart(bf.chunk_end)]
    /\ UNCHANGED <<today, dbExists, policy_rates, apiKey, fetched, drv>>

\* ---------------------------------------------------- top-level drivers
\* lines a driver prints
Remediation == "Set environment variable: export FRED_API_KEY='your_key_here'"
Hint == "Hint: Set FRED_API_KEY environment variable"
Cancelled == "Backfill cancelled"
NoDataFetched == "No data fetched"
UpdateComplete == "Update complete"
BackfillComplete == "BACKFILL COMPLETE"
Traceback == "Traceback (most recent call last)"

\* exit is None while the driver runs, then the status sys.exit(main()) ends with
IdleDriver ==
    [prog |-> "none", pc |-> "idle", exit |-> None, out |-> {}, skip_repo |-> FALSE,
     skip_fed |-> FALSE, verbose |-> FALSE, start_date |-> <<>>, end_date |-> <<>>]

Exited(d, prog, status, lines) ==
    [d EXCEPT !.prog = prog, !.pc = "exited", !.exit = Some(status), !.out = @ \cup lines]

\* str.lower() of the answers tried at the prompt
Lower(response) == IF response = "YES" THEN "yes" ELSE response

\* the last five lines of backfill_in_chunks: the loop is left, the summary is
\* printed; control returns to the caller, which in backfill.main goes on to the
\* weekly backfill or to the closing banner and return 0
BackfillSummary ==
    /\ bf.pc = "loop"
    /\ bf.current > bf.end
    /\ bf' = [bf EXCEPT !.pc = "done",
                        !.summary = <<bf.total_inserted, bf.total_updated,
                                      bf.total_inserted + bf.total_updated>>]
    /\ drv' = IF drv.pc = "repo_chunks" THEN [drv EXCEPT !.pc = "fed"]
              ELSE IF drv.pc = "fed_chunks" THEN Exited(drv, "backfill", 0, {BackfillComplete})
              ELSE drv
    /\ UNCHANGED <<today, dbExists, repo_rates, fed_weekly, policy_rates, last, apiKey,
                   fetched>>

\* update_daily.main: an exception of the fetch or of the upsert is not caught
UpdateDailyMain(verbose, replies, failAt) ==
    /\ drv.pc = "idle"
    /\ bf.pc = "idle"
    /\ LET res == fetch_repo_rates(replies)
           up == upsert_repo_rates(dbExists, repo_rates, res.result, verbose, failAt)
       IN  /\ fetched' = res
           /\ failAt \in FailPoints(res.result)
           /\ IF res.outcome = "raised"
              THEN /\ drv' = Exited(drv, "update_daily", 1, {Traceback})
                   /\ UNCHANGED <<repo_rates, last>>
              ELSE IF NoData(res.result)
              THEN /\ drv' = Exited(drv, "update_daily", 1, {NoDataFetched})
                   /\ UNCHANGED <<repo_rates, last>>
              ELSE /\ repo_rates' = up.table
                   /\ last' = CallRecord("daily", DailyFields, res.result, repo_rates, up, failAt)
                   /\ drv' = IF up.outcome = "raised"
                             THEN Exited(drv, "update_daily", 1, {Traceback})
                             ELSE Exited(drv, "update_daily", 0, {UpdateComplete})
    /\ UNCHANGED <<today, dbExists, fed_weekly, policy_rates, apiKey, bf>>

\* update_weekly.main: a ValueError of the fetch is caught and answered with the
\* key instructions and return 1; an exception of the upsert is not caught
UpdateWeeklyMain(verbose, replies, failAt) ==
    /\ drv.pc = "idle"
    /\ bf.pc = "idle"
    /\ LET res == fetch_fed_weekly(apiKey, FALSE, replies)
           up == upsert_fed_weekly(dbExists, fed_weekly, res.result, verbose, failAt)
       IN  /\ fetched' = res
           /\ failAt \in FailPoints(res.result)
           /\ IF res.outcome = "raised"
              THEN /\ drv' = Exited(drv, "update_weekly", 1,
                                    {FetchError("weekly", res), Remediation})
                   /\ UNCHANGED <<fed_weekly, last>>
              ELSE IF NoData(res.result)
              THEN /\ drv' = Exited(drv, "update_weekly", 1, {NoDataFetched})
                   /\ UNCHANGED <<fed_weekly, last>>
              ELSE /\ fed_weekly' = up.table
                   /\ last' = CallRecord("weekly", WeeklyFields, res.result, fed_weekly, up, failAt)
                   /\ drv' = IF up.outcome = "raised"
                             THEN Exited(drv, "update_weekly", 1, {Traceback})
                             ELSE Exited(drv, "update_weekly", 0, {UpdateComplete})
    /\ UNCHANGED <<today, dbExists, repo_rates, policy_rates, apiKey, bf>>

\* backfill.main up to the first backfill: the arguments, the banner, the prompt
BackfillMain(response, skip_repo, skip_fed, verbose, start_date, end_date) ==
    /\ drv.pc = "idle"
    /\ bf.pc = "idle"
    /\ drv' = IF Lower(response) # "yes"
              THEN Exited(drv, "backfill", 1, {Cancelled})
              ELSE [drv EXCEPT !.prog = "backfill", !.pc = "repo", !.skip_repo = skip_repo,
                               !.skip_fed = skip_fed, !.verbose = verbose,
                               !.start_date = start_date, !.end_date = end_date]
    /\ UNCHANGED <<today, dbExists, repo_rates, fed_weekly, policy_rates, last, apiKey,
                   fetched, bf>>

\* backfill.main, "if not args.skip_repo": backfill_repo_rates enters the chunk loop
BackfillRepoRates ==
    /\ drv.pc = "repo"
    /\ IF drv.skip_repo
       THEN drv' = [drv EXCEPT !.pc = "fed"] /\ UNCHANGED bf
       ELSE /\ drv' = [drv EXCEPT !.pc = "repo_chunks"]
            /\ bf' = backfill_begin("daily", drv.start_date, drv.end_date, RepoChunkDays,
                                    drv.verbose)
    /\ UNCHANGED <<today, dbExists, repo_rates, fed_weekly, policy_rates, last, apiKey,
                   fetched>>

\* backfill.main, "if not args.skip_fed": backfill_fed_weekly enters the chunk loop;
\* with --skip-fed the closing banner and return 0
BackfillFedWeekly ==
    /\ drv.pc = "fed"
    /\ IF drv.skip_fed
       THEN drv' = Exited(drv, "backfill", 0, {BackfillComplete}) /\ UNCHANGED bf
       ELSE /\ drv' = [drv EXCEPT !.pc = "fed_chunks"]
            /\ bf' = backfill_begin("weekly", drv.start_date, drv.end_date, FedChunkDays,
                                    drv.verbose)
    /\ UNCHANGED <<today, dbExists, repo_rates, fed_weekly, policy_rates, last, apiKey,
                   fetched>>

\* ---------------------------------------------------- specifications
InitStore ==
    /\ dbExists \in BOOLEAN
    /\ repo_rates = {}
    /\ fed_weekly = {}
    /\ policy_rates = {}
    /\ last = NoCall
    /\ fetched = NoFetch
    /\ bf = IdleBackfill
    /\ drv = IdleDriver

\* the clock reads 2024-03-01: the window ends across the leap day
InitUpsert == today = strptime(<<2024, 3, 1>>) /\ apiKey = TRUE /\ InitStore

DailyCall ==
    \E data \in Batches(DailyRecords), verbose \in BOOLEAN, failAt \in 0 .. MaxBatch :
        failAt <= Len(data) /\ UpsertRepoRatesCall(data, verbose, failAt)

WeeklyCall ==
    \E data \in Batches(WeeklyRecords), verbose \in BOOLEAN, failAt \in 0 .. MaxBatch :
        failAt <= Len(data) /\ UpsertFedWeeklyCall(data, verbose, failAt)

\* the runs explored write one of the two tables: the two engines share no table
NextUpsert ==
    \/ fed_weekly = {} /\ DailyCall
    \/ repo_rates = {} /\ WeeklyCall

SpecUpsert == InitUpsert /\ [][NextUpsert]_vars

\* the clock reads any day of 2023 or 2024; each call upserts one record dated today
InitFlags ==
    /\ today \in strptime(<<2023, 1, 1>>) .. strptime(<<2024, 12, 31>>)
    /\ apiKey = TRUE
    /\ InitStore

FlagCall ==
    \E p \in DailyPayloads, verbose \in BOOLEAN, failAt \in 0 .. 1 :
        UpsertRepoRatesCall(<<DailyRecord(strftime(today), p)>>, verbose, failAt)

SpecFlags == InitFlags /\ [][FlagCall]_vars

InitFetch == today = strptime(<<2024, 3, 1>>) /\ apiKey \in BOOLEAN /\ InitStore

NextFetch ==
    \/ \E replies \in RepoReplies(Window) : FetchRepoRatesCall(replies)
    \/ \E include_tga \in BOOLEAN, replies \in WeeklyReplies(Window) :
          FetchFedWeeklyCall(include_tga, replies)

SpecFetch == InitFetch /\ [][NextFetch]_vars

\* direct calls of backfill_in_chunks over short ranges that begin at the new year
\* or cross the leap day; an end one day before the start is the empty range
RangeStarts == {<<2024, 1, 1>>, <<2024, 2, 28>>}

\* the store a backfill starts on: missing, empty, or holding the rows an earlier
\* update run inserted for 2024-01-02
SeedDate == <<2024, 1, 2>>
SeededRepo == InsertRepoRow({}, DailyRecord(SeedDate, <<Some(5), Some(5), Some(0), Some(2)>>))
SeededWeekly == InsertWeeklyRow({}, WeeklyRecord(SeedDate, Some(2), Some(5)))

InitBackfill ==
    /\ today = strptime(<<2024, 3, 1>>)
    /\ apiKey \in BOOLEAN
    /\ dbExists \in BOOLEAN
    /\ \E seeded \in BOOLEAN :
          /\ repo_rates = IF seeded /\ dbExists THEN SeededRepo ELSE {}
          /\ fed_weekly = IF seeded /\ dbExists THEN SeededWeekly ELSE {}
    /\ policy_rates = {}
    /\ last = NoCall
    /\ fetched = NoFetch
    /\ bf = IdleBackfill
    /\ drv = IdleDriver

BackfillCall ==
    \E kind \in {"daily", "weekly"}, start_date \in RangeStarts, n \in 0 .. RangeDays,
       chunk_days \in 1 .. MaxChunkDays, verbose \in BOOLEAN :
        BackfillInChunksCall(kind, start_date, strftime(strptime(start_date) + n - 1),
                             chunk_days, verbose)

NextBackfill ==
    \/ BackfillCall
    \/ \E replies \in ChunkRounds : ChunkFetch(replies)
    \/ \E failAt \in 0 .. MaxBatch : ChunkUpsert(failAt)
    \/ BackfillSummary

SpecBackfill == InitBackfill /\ [][NextBackfill]_vars

\* A store that holds more than the scripts write: the schema's policy schedule and
\* the two computed columns of repo_rates are filled by hand (no script of the
\* repository writes them), and both tables hold rows of earlier runs, one of a
\* date outside the update window and one of a date inside it.
LoadedDate == <<2024, 2, 29>>

LoadedPolicy ==
    { [effective_date |-> <<2024, 1, 1>>, iorb |-> 5, target_lower |-> 5, target_upper |-> 6] }

LoadedRepo ==
    { [r EXCEPT !.sofr_iorb_spread = Some(1), !.effr_target_mid = Some(3)] :
        r \in InsertRepoRow(SeededRepo,
                            DailyRecord(LoadedDate, <<Some(5), Some(5), Some(0), Some(2)>>)) }

LoadedWeekly ==
    LET t == InsertWeeklyRow(SeededWeekly, WeeklyRecordTga(LoadedDate, Some(5), Some(0), Some(7)))
    IN  StoreChanges(t, LoadedDate, calculate_weekly_changes(t, LoadedDate))

InitLoaded ==
    /\ today = strptime(<<2024, 3, 1>>)
    /\ apiKey = TRUE
    /\ dbExists = TRUE
    /\ repo_rates = LoadedRepo
    /\ fed_weekly = LoadedWeekly
    /\ policy_rates = LoadedPolicy
    /\ last = NoCall
    /\ fetched = NoFetch
    /\ bf = IdleBackfill
    /\ drv = IdleDriver

\* the runs explored write one of the two tables, the other one staying as loaded
NextLoaded ==
    \/ fed_weekly = LoadedWeekly /\ DailyCall
    \/ repo_rates = LoadedRepo /\ WeeklyCall

SpecLoaded == InitLoaded /\ [][NextLoaded]_vars

\* the round in which every request fails
AllFail ==
    IF bf.kind = "daily"
    THEN [sofr |-> ErrorReply, effr |-> ErrorReply, srf |-> ErrorReply, onrrp |-> ErrorReply]
    ELSE [balance_sheet |-> ErrorReply, reserves |-> ErrorReply, tga |-> ErrorReply]

\* The same runs under the interpreter's scheduling: a run that is in its loop, or
\* has left it, does not stop there.  The condition is weak fairness of one step
\* per position of the loop (the round whose requests all fail; the upsert that the
\* store rejects at its first record or, without a store, that returns at once; the
\* summary): each is enabled exactly when some step of its position is, so the fair
\* runs are the runs that do not halt before the summary.
LoopStep ==
    \/ ChunkFetch(AllFail)
    \/ ChunkUpsert(IF dbExists THEN 1 ELSE 0)
    \/ BackfillSummary

SpecBackfillFair == InitBackfill /\ [][NextBackfill]_vars /\ WF_vars(LoopStep)

\* the three drivers, run once each from an empty store; the backfill over a range
\* of two days or over the empty range that ends the day before it starts
InitMain == today = strptime(<<2024, 3, 1>>) /\ apiKey \in BOOLEAN /\ InitStore

MainEnds == {strftime(strptime(<<2024, 1, 1>>) + n) : n \in {-1, 1}}

NextMain ==
    \/ \E verbose \in BOOLEAN, replies \in DailyRounds(Window), failAt \in 0 .. MaxBatch :
          UpdateDailyMain(verbose, replies, failAt)
    \/ \E verbose \in BOOLEAN, replies \in WeeklyRounds(Window), failAt \in 0 .. MaxBatch :
          UpdateWeeklyMain(verbose, replies, failAt)
    \/ \E response \in {"yes", "YES", "no"}, skip_repo \in BOOLEAN, skip_fed \in BOOLEAN,
          verbose \in BOOLEAN, end_date \in MainEnds :
          BackfillMain(response, skip_repo, skip_fed, verbose, <<2024, 1, 1>>, end_date)
    \/ BackfillRepoRates
    \/ BackfillFedWeekly
    \/ \E replies \in ChunkRounds : ChunkFetch(replies)
    \/ \E failAt \in 0 .. MaxBatch : ChunkUpsert(failAt)
    \/ BackfillSummary

SpecMain == InitMain /\ [][NextMain]_vars


\* ------------------------------------------------------------- claims
TableOf(kind) == IF kind = "daily" THEN repo_rates ELSE fed_weekly

\* C1: on an existing store, upserting the same one-record batch [r] twice in
\* succession (both calls returning) leaves exactly one row for r's date, and the
\* second call returns (inserted, updated) = (0, 1).
C1_Idempotent ==
    (dbExists /\ last.repeat /\ Len(last.data) = 1) =>
        /\ last.inserted = 0
        /\ last.updated = 1
        /\ Cardinality({r \in TableOf(last.kind) : r.date = last.data[1].date}) = 1

C1_Witness ==
    /\ dbExists /\ last.repeat /\ Len(last.data) = 1
    /\ last.kind = "weekly"
    /\ last.data[1].balance_sheet # None

\* the calendar facts the flags are compared with
LastDayOfMonth(d) ==
    \/ d[2] \in {1, 3, 5, 7, 8, 10, 12} /\ d[3] = 31
    \/ d[2] \in {4, 6, 9, 11} /\ d[3] = 30
    \/ d[2] = 2 /\ d[3] = (IF d[1] \in {2020, 2024} THEN 29 ELSE 28)

\* C8: every row upsert_repo_rates stored, inserted or updated, has is_month_end
\* true iff its date is the last calendar day of its month and is_quarter_end true
\* iff it is the last day of March, June, September or December; so is_quarter_end
\* implies is_month_end.
C8_FlagsFromCalendar ==
    \A r \in repo_rates :
        /\ r.is_month_end = LastDayOfMonth(r.date)
        /\ r.is_quarter_end = (LastDayOfMonth(r.date) /\ r.date[2] \in {3, 6, 9, 12})
        /\ r.is_quarter_end => r.is_month_end

C8_Witness ==
    /\ last.outcome = "returned" /\ last.updated = 1
    /\ \E r \in repo_rates :
          r.date = <<2024, 2, 29>> /\ r.is_month_end /\ ~r.is_quarter_end /\ r.sofr = None

\* C9: after an upsert that returned, the row of every date of the batch holds the
\* record's values in every value field, None included (a record without a tga key
\* stores NULL in tga): an update replaces, it does not merge.
C9_FullReplace ==
    (dbExists /\ last.outcome = "returned") =>
        \A i \in 1 .. Len(last.data) :
            LET rec == last.data[i]
            IN  \E r \in TableOf(last.kind) :
                  /\ r.date = rec.date
                  /\ IF last.kind = "daily"
                     THEN /\ r.sofr = rec.sofr /\ r.effr = rec.effr
                          /\ r.srf_usage = rec.srf_usage /\ r.onrrp = rec.onrrp
                     ELSE /\ r.balance_sheet = rec.balance_sheet
                          /\ r.reserves = rec.reserves
                          /\ r.tga = (IF "tga" \in DOMAIN rec THEN rec.tga ELSE None)

C9_Witness ==
    /\ last.outcome = "returned" /\ last.kind = "weekly" /\ last.updated = 1
    /\ last.nulled = WeeklyFields
    /\ "tga" \notin DOMAIN last.data[1]

\* C2: after upsert_fed_weekly processed a record for d, the delta stored for d in
\* each compared field is the current value minus the value of the nearest earlier
\* stored row when both are numbers (0 included), and None when there is no earlier
\* row or one of the two is None.
NearestEarlier(t, d) ==
    {r \in t : strptime(r.date) < strptime(d)
               /\ \A q \in t : strptime(q.date) < strptime(d) => strptime(q.date) <= strptime(r.date)}

ExpectedChange(cur, prevs) ==
    IF prevs = {} THEN None
    ELSE LET prev == CHOOSE r \in prevs : TRUE
         IN  IF cur = None \/ prev = None THEN None ELSE Some(cur[1] - prev[1])

C2_DeltaAsClaimed ==
    (dbExists /\ last.kind = "weekly" /\ last.outcome = "returned") =>
        \A i \in 1 .. Len(last.data) :
            \A r \in fed_weekly :
                r.date = last.data[i].date =>
                    LET prevs == NearestEarlier(fed_weekly, r.date)
                    IN  /\ r.balance_sheet_change =
                             ExpectedChange(r.balance_sheet, {q.balance_sheet : q \in prevs})
                        /\ r.reserves_change =
                             ExpectedChange(r.reserves, {q.reserves : q \in prevs})

\* C7: without the credential fetch_fed_weekly raises before any request is sent,
\* and returns no (empty) result.
C7_NoRequestWithoutKey ==
    (fetched.kind = "weekly" /\ ~apiKey) =>
        /\ fetched.outcome = "raised"
        /\ fetched.requests = 0

C7_Witness == fetched.kind = "weekly" /\ ~apiKey /\ fetched.outcome = "raised"

\* C10: a fetch round that returns gives exactly one record per date of the union
\* of the keys of the mappings it consumed, in strictly ascending date order, each
\* field holding the mapping's value for the date, or None where it has none.
ConsumedSeries ==
    IF fetched.kind = "daily" THEN {"sofr", "effr", "srf", "onrrp"}
    ELSE IF fetched.include_tga THEN {"balance_sheet", "reserves", "tga"}
    ELSE {"balance_sheet", "reserves"}

FieldOf(series) == IF series = "srf" THEN "srf_usage" ELSE series

C10_OuterJoin ==
    fetched.outcome = "returned" =>
        LET res == fetched.result
            keys == UNION {DOMAIN fetched.maps[k] : k \in ConsumedSeries}
        IN  /\ {res[i].date : i \in 1 .. Len(res)} = keys
            /\ Len(res) = Cardinality(keys)
            /\ \A i, j \in 1 .. Len(res) :
                  i < j => strptime(res[i].date) < strptime(res[j].date)
            /\ \A i \in 1 .. Len(res) :
                  /\ DOMAIN res[i] = {"date"} \cup {FieldOf(k) : k \in ConsumedSeries}
                  /\ \A k \in ConsumedSeries :
                        res[i][FieldOf(k)] =
                            (IF res[i].date \in DOMAIN fetched.maps[k]
                             THEN <<fetched.maps[k][res[i].date]>> ELSE <<>>)

C10_Witness ==
    /\ fetched.outcome = "returned" /\ fetched.kind = "daily"
    /\ Len(fetched.result) = 2
    /\ fetched.result[1].sofr = None /\ fetched.result[1].effr # None
    /\ fetched.result[2].sofr # None /\ fetched.result[2].effr = None
    /\ fetched.result[1].srf_usage = None /\ fetched.result[2].onrrp = None

\* C3: backfill_in_chunks walks [A, B] with width W in the sub-ranges
\* [s_i, min(s_i + W days, B)], s_1 = A, s_(i+1) = end of sub-range i plus one day;
\* at the end of the run every date of [A, B] lies in exactly one sub-range and the
\* last one ends at B; [2024-01-01, 2024-01-05] with W = 2 gives [01-01, 01-03] and
\* [01-04, 01-05].
DayAfter(a, b) ==
    \/ a[1] = b[1] /\ a[2] = b[2] /\ b[3] = a[3] + 1
    \/ a[1] = b[1] /\ b[2] = a[2] + 1 /\ b[3] = 1 /\ LastDayOfMonth(a)
    \/ b[1] = a[1] + 1 /\ a[2] = 12 /\ a[3] = 31 /\ b[2] = 1 /\ b[3] = 1

InRange(d, lo, hi) == ~DateLt(d, lo) /\ ~DateLt(hi, d)

RECURSIVE DaysLater(_, _, _)
DaysLater(a, b, n) ==
    IF n = 0 THEN a = b
    ELSE \E m \in {a} \cup {<<a[1], a[2], a[3] + 1>>, <<a[1], a[2] + 1, 1>>, <<a[1] + 1, 1, 1>>} :
            DayAfter(a, m) /\ DaysLater(m, b, n - 1)

C4_UpsertIffData ==
    LET c == bf.chunks
        n == Len(c)
    IN  /\ \A i \in 1 .. n :
              /\ c[i].upsert # "none" => c[i].fetch = "data"
              /\ (c[i].fetch = "data" /\ c[i].upsert = "none") => (i = n /\ bf.pc = "insert")
              /\ c[i].fetch # "data" => Len(c[i].data) = 0
        /\ bf.pc = "insert" => (n > 0 /\ c[n].fetch = "data" /\ c[n].upsert = "none")
        /\ (n > 0 /\ c[n].fetch # "data") =>
              /\ bf.pc \in {"loop", "done"}
              /\ DayAfter(c[n].end, strftime(bf.current))
        /\ \A i, j \in 1 .. n : i < j => DateLt(c[i].end, c[j].start)
        /\ bf.chunk_num = n

C4_Witness ==
    /\ bf.pc = "done" /\ Len(bf.chunks) = 3
    /\ bf.chunks[1].fetch = "raised" /\ bf.chunks[1].upsert = "none"
    /\ bf.chunks[2].fetch = "empty" /\ bf.chunks[2].upsert = "none"
    /\ bf.chunks[3].fetch = "data" /\ bf.chunks[3].upsert = "returned"

\* C5: in a backfill, when the store rejects one record of a chunk's batch, the
\* records of the batch after it are still processed and stored.
C5_RestOfBatchStored ==
    bf.kind # "none" =>
        \A i \in 1 .. Len(bf.chunks) :
            LET c == bf.chunks[i]
            IN  (c.upsert = "raised" /\ c.failAt > 0) =>
                    \A k \in c.failAt + 1 .. Len(c.data) :
                        RowExists(TableOf(bf.kind), c.data[k].date)

\* C6: with FRED_API_KEY unset, a driver that went to fetch weekly data ends with a
\* non-zero status, having printed a line that names FRED_API_KEY.
NamesKey == {KeyMessage, Remediation, Hint}

Printed == drv.out \cup {bf.chunks[i].error : i \in 1 .. Len(bf.chunks)}

FetchedWeekly ==
    \/ drv.prog = "update_weekly"
    \/ drv.prog = "backfill" /\ bf.kind = "weekly" /\ Len(bf.chunks) > 0

C6_MissingKeyExitsNonZero ==
    (drv.pc = "exited" /\ ~apiKey /\ FetchedWeekly) =>
        /\ drv.exit # Some(0)
        /\ Printed \cap NamesKey # {}

\* C11: every run of backfill_in_chunks comes to its end, whatever the fetches and
\* upserts of its chunks did; at the end it has printed the three totals and its
\* chunks cover every date of [A, B]; a failed chunk is followed by the next chunk;
\* for A > B the run ends with no chunk and the summary.
C11_RunEndsWithSummary ==
    /\ (bf.pc \in {"loop", "insert"}) ~> (bf.pc = "done")
    /\ [](bf.pc \in {"idle", "loop", "insert", "done"})
    /\ [](bf.pc = "done" =>
            /\ Len(bf.summary) = 3
            /\ \A d \in bf.start .. bf.end :
                  \E i \in 1 .. Len(bf.chunks) :
                     InRange(strftime(d), bf.chunks[i].start, bf.chunks[i].end)
            /\ bf.start > bf.end => Len(bf.chunks) = 0)
    /\ [](bf.pc # "done" => Len(bf.summary) = 0)

C11_Witness ==
    /\ bf.pc = "done" /\ Len(bf.summary) = 3 /\ Len(bf.chunks) = 3
    /\ bf.chunks[1].fetch = "raised"
    /\ bf.chunks[2].upsert = "raised"
    /\ bf.chunks[3].upsert = "returned"

\* C12: at the end of backfill_in_chunks the reported totals are the sums of the
\* pairs returned by the upserts that returned; a chunk whose fetch raised or was
\* empty, or whose upsert raised, adds nothing; total records = inserted + updated.
RECURSIVE SumOver(_, _)
SumOver(c, field) ==
    IF Len(c) = 0 THEN 0
    ELSE (IF c[1].upsert = "returned" THEN c[1][field] ELSE 0) + SumOver(Tail(c), field)

C12_TotalsAreSums ==
    /\ bf.pc = "done" =>
          /\ bf.summary[1] = SumOver(bf.chunks, "inserted")
          /\ bf.summary[2] = SumOver(bf.chunks, "updated")
          /\ bf.summary[3] = bf.summary[1] + bf.summary[2]
    /\ \A i \in 1 .. Len(bf.chunks) :
          LET c == bf.chunks[i]
          IN  c.upsert # "returned" => (c.inserted = 0 /\ c.updated = 0)

C12_Witness ==
    /\ bf.pc = "done" /\ Len(bf.chunks) = 3
    /\ bf.chunks[1].upsert = "returned" /\ bf.chunks[1].updated = 1
    /\ bf.chunks[1].inserted = 1
    /\ bf.chunks[2].upsert = "raised"
    /\ bf.chunks[3].upsert = "returned" /\ bf.chunks[3].inserted = 1
    /\ bf.summary = <<2, 1, 3>>

\* C13: an upsert call on an existing store that returns, its batch having pairwise
\* distinct dates, returns inserted = the number of batch dates without a row
\* before the call and updated = the number with one; the two add up to the batch
\* length and the table has grown by exactly inserted rows.
C13_CountsMatchStore ==
    [][ (dbExists /\ last'.outcome = "returned") =>
            LET before == IF last'.kind = "daily" THEN repo_rates ELSE fed_weekly
                after == IF last'.kind = "daily" THEN repo_rates' ELSE fed_weekly'
                dates == {last'.data[i].date : i \in 1 .. Len(last'.data)}
                stored == {r.date : r \in before}
            IN  Cardinality(dates) = Len(last'.data) =>
                    /\ last'.inserted = Cardinality(dates \ stored)
                    /\ last'.updated = Cardinality(dates \cap stored)
                    /\ last'.inserted + last'.updated = Len(last'.data)
                    /\ Cardinality(after) = Cardinality(before) + last'.inserted ]_vars

C13_Witness ==
    /\ dbExists /\ last.kind = "weekly" /\ last.outcome = "returned"
    /\ Len(last.data) = 2 /\ last.inserted = 1 /\ last.updated = 1

\* C14: whatever upserts ran, returned or raised, each table holds at most one row
\* per date, and no step removes a date from a table.
DatesOf(t) == {r.date : r \in t}

OneRowPerDate(t) == \A r, q \in t : r.date = q.date => r = q

C14_KeyedAndNeverDeleted ==
    /\ [](OneRowPerDate(repo_rates) /\ OneRowPerDate(fed_weekly))
    /\ [][ /\ DatesOf(repo_rates) \subseteq DatesOf(repo_rates')
           /\ DatesOf(fed_weekly) \subseteq DatesOf(fed_weekly') ]_vars

C14_Witness ==
    /\ last.kind = "weekly" /\ last.outcome = "raised" /\ Len(last.data) = 2
    /\ Cardinality(fed_weekly) = 2
    /\ \E r \in fed_weekly : r.balance_sheet_change # None

\* C15: in a plain upsert call the store's rejection of a statement at record i is
\* not caught: the call raises, and no write of the batch, those of the records
\* before i included, is in the committed tables.
C15_RejectionRaisesAndRollsBack ==
    [][ (dbExists /\ last'.failAt > 0) =>
            /\ last'.outcome = "raised"
            /\ last'.inserted = 0 /\ last'.updated = 0
            /\ repo_rates' = repo_rates
            /\ fed_weekly' = fed_weekly ]_vars

C15_Witness ==
    /\ dbExists /\ last.kind = "daily" /\ last.outcome = "raised" /\ last.failAt = 2
    /\ last.data[1].date \notin DatesOf(repo_rates)
    /\ repo_rates # {}

\* C16: a request that ends in a network or HTTP failure does not raise out of its
\* adapter: in a round with such a failure and no other error the adapter's mapping
\* for the series is empty, every sibling series is still requested, and the round
\* returns the merge of the mappings obtained.
C16_FailedRequestIsEmptyMapping ==
    (/\ fetched.kind # "none"
     /\ fetched.kind = "weekly" => apiKey
     /\ \A k \in ConsumedSeries : fetched.status[k] # "malformed"
     /\ \E k \in ConsumedSeries : fetched.status[k] = "error") =>
        /\ fetched.outcome = "returned"
        /\ fetched.requests = Cardinality(ConsumedSeries)
        /\ \A k \in ConsumedSeries :
              fetched.status[k] = "error" => DOMAIN fetched.maps[k] = {}
        /\ {fetched.result[i].date : i \in 1 .. Len(fetched.result)} =
              UNION {DOMAIN fetched.maps[k] : k \in ConsumedSeries}
        /\ \A i \in 1 .. Len(fetched.result) :
              \A k \in ConsumedSeries :
                 fetched.status[k] = "error" => fetched.result[i][FieldOf(k)] = None

C16_Witness ==
    /\ fetched.kind = "daily" /\ fetched.outcome = "returned"
    /\ fetched.status.sofr = "error" /\ fetched.status.effr = "ok"
    /\ fetched.requests = 4
    /\ Len(fetched.result) = 2 /\ fetched.result[1].effr # None

\* C17: after any sequence of upsert_fed_weekly calls every stored weekly row holds,
\* in each delta field, its value minus the value of the most recent stored row
\* strictly before its date when both are numbers, and None otherwise.
C17_StoredDeltasMatchStore ==
    dbExists =>
        \A r \in fed_weekly :
            LET prevs == NearestEarlier(fed_weekly, r.date)
            IN  /\ r.balance_sheet_change =
                     ExpectedChange(r.balance_sheet, {q.balance_sheet : q \in prevs})
                /\ r.reserves_change =
                     ExpectedChange(r.reserves, {q.reserves : q \in prevs})

\* C18: when upsert_fed_weekly returns after re-upserting a date whose row carried a
\* non-null delta, and for neither field the difference can be computed any more
\* (the row's value or the nearest earlier row's value is None, or no earlier row
\* exists), the row's balance_sheet_change and reserves_change are both None.
Computable(t, r, f) ==
    /\ r[f] # None
    /\ \E q \in NearestEarlier(t, r.date) : q[f] # None

C18_StaleDeltaCleared ==
    [][ (dbExists /\ last'.kind = "weekly" /\ last'.outcome = "returned") =>
            \A i \in 1 .. Len(last'.data) :
                \A old \in fed_weekly, r \in fed_weekly' :
                    ( /\ old.date = last'.data[i].date
                      /\ r.date = old.date
                      /\ (old.balance_sheet_change # None \/ old.reserves_change # None)
                      /\ ~Computable(fed_weekly', r, "balance_sheet")
                      /\ ~Computable(fed_weekly', r, "reserves") ) =>
                        /\ r.balance_sheet_change = None
                        /\ r.reserves_change = None ]_vars

\* C19: backfill_in_chunks handles its chunks one at a time in ascending order of
\* start date.  A chunk is entered (its fetch starts) only at the head of the loop,
\* when the upsert of every chunk that fetched data has returned or raised; an upsert
\* belongs to the chunk entered last.  When the weekly upsert of a chunk returns, the
\* store it started on holds a row for every record of the earlier chunks whose
\* upsert returned, and the changes stored for the chunk's first record are the ones
\* computed against the nearest earlier row of that store.
UpsertOver(line) == line.fetch = "data" => line.upsert \in {"returned", "raised"}

C19_ChunksStrictlySequential ==
    /\ [](\A i, j \in 1 .. Len(bf.chunks) :
              i < j => DateLt(bf.chunks[i].start, bf.chunks[j].start))
    /\ [](\A i \in 1 .. Len(bf.chunks) :
              (i < Len(bf.chunks) \/ bf.pc # "insert") => UpsertOver(bf.chunks[i]))
    /\ [][ (bf.pc # "idle" /\ Len(bf.chunks') = Len(bf.chunks) + 1) =>
              /\ bf.pc = "loop"
              /\ \A i \in 1 .. Len(bf.chunks) :
                    /\ UpsertOver(bf.chunks[i])
                    /\ bf.chunks'[i] = bf.chunks[i] ]_vars
    /\ [][ (bf.pc = "insert") =>
              /\ Len(bf.chunks') = Len(bf.chunks)
              /\ bf'.pc = "loop"
              /\ bf.chunks[Len(bf.chunks)].upsert = "none"
              /\ bf.chunks'[Len(bf.chunks)].upsert \in {"returned", "raised"}
              /\ \A i \in 1 .. Len(bf.chunks) - 1 : bf.chunks'[i] = bf.chunks[i] ]_vars
    /\ [][ (bf.pc = "insert" /\ bf.kind = "weekly" /\ dbExists
            /\ last'.outcome = "returned") =>
              /\ \A i \in 1 .. Len(bf.chunks) - 1 :
                    bf.chunks[i].upsert = "returned" /\ bf.chunks[i].failAt = 0 =>
                        \A n \in 1 .. Len(bf.chunks[i].data) :
                            bf.chunks[i].data[n].date \in DatesOf(fed_weekly)
              /\ LET rec == bf.data[1]
                     prevs == NearestEarlier(fed_weekly, rec.date)
                     bs == IF prevs = {} THEN None
                           ELSE Change(rec.balance_sheet,
                                       (CHOOSE q \in prevs : TRUE).balance_sheet)
                     res == IF prevs = {} THEN None
                            ELSE Change(rec.reserves, (CHOOSE q \in prevs : TRUE).reserves)
                 IN  (bs # None \/ res # None) =>
                        \E r \in fed_weekly' :
                            /\ r.date = rec.date
                            /\ r.balance_sheet_change = bs
                            /\ r.reserves_change = res ]_vars

\* the second chunk's weekly upsert has returned and the change stored for its first
\* record is the difference to a row that the first chunk wrote
C19_Witness ==
    /\ bf.kind = "weekly" /\ dbExists /\ bf.pc = "loop" /\ Len(bf.chunks) = 2
    /\ bf.chunks[1].upsert = "returned" /\ bf.chunks[2].upsert = "returned"
    /\ last.outcome = "returned"
    /\ \E r \in fed_weekly, q \in NearestEarlier(fed_weekly, bf.chunks[2].data[1].date) :
          /\ r.date = bf.chunks[2].data[1].date
          /\ \E n \in 1 .. Len(bf.chunks[1].data) : bf.chunks[1].data[n].date = q.date
          /\ q.balance_sheet # None /\ r.balance_sheet # None
          /\ r.balance_sheet_change = Some(r.balance_sheet[1] - q.balance_sheet[1])

\* C20: an upsert changes only rows of its own table whose date occurs in its batch.
\* upsert_repo_rates leaves fed_weekly and policy_rates as they were,
\* upsert_fed_weekly leaves repo_rates and policy_rates as they were; a row of a date
\* that is not in the batch is kept with all its fields, no row of a date outside
\* the batch appears, and a daily row that was stored before keeps its
\* sofr_iorb_spread and effr_target_mid.
BatchDates == {last.data[i].date : i \in 1 .. Len(last.data)}

Framed(before, after, dates) ==
    /\ \A r \in before : r.date \notin dates => r \in after
    /\ \A q \in after : q.date \notin dates => q \in before

C20_OnlyBatchRowsChange ==
    [][ /\ policy_rates' = policy_rates
        /\ last'.kind = "daily" =>
              /\ fed_weekly' = fed_weekly
              /\ Framed(repo_rates, repo_rates', BatchDates')
              /\ \A r \in repo_rates, q \in repo_rates' :
                    r.date = q.date => /\ q.sofr_iorb_spread = r.sofr_iorb_spread
                                       /\ q.effr_target_mid = r.effr_target_mid
        /\ last'.kind = "weekly" =>
              /\ repo_rates' = repo_rates
              /\ Framed(fed_weekly, fed_weekly', BatchDates') ]_vars

\* a daily call has rewritten the loaded row of the window, whose computed columns
\* are filled, next to a stored row of another date that carries a delta, with the
\* policy schedule loaded
C20_Witness ==
    /\ last.kind = "daily" /\ last.outcome = "returned" /\ last.updated = 1
    /\ LoadedDate \in BatchDates
    /\ policy_rates # {}
    /\ \E r \in repo_rates :
          /\ r.date = LoadedDate /\ r.sofr = None
          /\ r.sofr_iorb_spread = Some(1) /\ r.effr_target_mid = Some(3)
    /\ \E r \in repo_rates : r.date \notin BatchDates
    /\ \E w \in fed_weekly : w.balance_sheet_change # None

\* C21: in a backfill, when a fetch round returns with the request of one series
\* failed and another series reporting some date, the record list is not empty and
\* the chunk goes to the upsert with exactly that list; when that upsert returns on
\* an existing store, every row that was stored for a date of the list with a value
\* in the field of a failed series is still stored and holds None in that field.
FailedSeries == {k \in ConsumedSeries : fetched.status[k] = "error"}

PartialRound ==
    /\ fetched.outcome = "returned"
    /\ FailedSeries # {}
    /\ \E k \in ConsumedSeries : DOMAIN fetched.maps[k] # {}

C21_FailedSeriesNullsStoredField ==
    /\ [][ (Len(bf.chunks') = Len(bf.chunks) + 1 /\ PartialRound') =>
              /\ Len(fetched'.result) > 0
              /\ bf'.pc = "insert"
              /\ bf'.data = fetched'.result ]_vars
    /\ [][ (bf.pc = "insert" /\ PartialRound /\ dbExists /\ last'.outcome = "returned") =>
              LET before == IF bf.kind = "daily" THEN repo_rates ELSE fed_weekly
                  after == IF bf.kind = "daily" THEN repo_rates' ELSE fed_weekly'
                  dates == {fetched.result[i].date : i \in 1 .. Len(fetched.result)}
              IN  /\ last'.data = fetched.result
                  /\ \A k \in FailedSeries :
                        \A r \in before :
                            (r.date \in dates /\ r[FieldOf(k)] # None) =>
                                \E q \in after : /\ q.date = r.date
                                                 /\ q[FieldOf(k)] = None ]_vars

\* the srf request of a chunk failed while effr reported the date of a stored row
\* whose srf_usage held a value; the upsert returned and the field is None, and so
\* for the weekly reserves
C21_Witness ==
    /\ bf.pc = "loop" /\ PartialRound /\ dbExists
    /\ last.outcome = "returned" /\ last.data = fetched.result /\ last.updated = 1
    /\ \/ /\ bf.kind = "daily" /\ fetched.status.srf = "error"
          /\ fetched.status.effr = "ok" /\ "srf_usage" \in last.nulled
          /\ \E q \in repo_rates : q.date = SeedDate /\ q.srf_usage = None /\ q.effr # None
       \/ /\ bf.kind = "weekly" /\ fetched.status.reserves = "error"
          /\ "reserves" \in last.nulled
          /\ \E q \in fed_weekly : q.date = SeedDate /\ q.reserves = None

====
